---- MODULE Spec2Model ----
(***************************************************************************)
(* Model of src/filemanager/chattr.c (Midnight Commander, "Chattr          *)
(* command"): the attribute dialog, the mask pair built from it and the    *)
(* application of the mask to the marked files of the current panel.       *)
(*                                                                         *)
(* An attribute word (unsigned long) is modelled as the set of the bit     *)
(* positions that are 1 in it: & is \cap, | is \cup, ^ is the symmetric    *)
(* difference and ~ the complement within the word.                        *)
(***************************************************************************)
EXTENDS Naturals, Integers, Sequences, FiniteSets, TLC

(* ------------------------------ bounds --------------------------------- *)

\* number of entries of current_panel->dir.list
NumFiles == 3

\* number of failing fgetflags/fsetflags calls the environment may produce
\* during one run of chattr_cmd
MaxFail == 2

\* width of an attribute word
WordBits == 3

(* ----------------------------- bit words ------------------------------- *)

Bits == 0 .. (WordBits - 1)
Word == SUBSET Bits

BitAnd(a, b) == a \cap b
BitOr(a, b) == a \cup b
BitXor(a, b) == (a \ b) \cup (b \ a)
BitNot(a) == Bits \ a

\* ~0 converted to unsigned long
AllOnes == BitNot({})

(* ------------------------- attribute catalog --------------------------- *)

\* flag values of <ext2fs/ext2_fs.h>, renumbered to the low bits of the word
EXT2_SECRM_FL == {0}
EXT2_UNRM_FL == {1}
EXT2_COMPRBLK_FL == {2}

\* the flags chattr(1) lets the user change; COMPRBLK is not one of them
EXT2_FL_USER_MODIFIABLE == BitOr(EXT2_SECRM_FL, EXT2_UNRM_FL)

\* check_attr[] without its mutable fields (selected, check), which are the
\* variables selected and check below
check_attr ==
    << [flags |-> EXT2_SECRM_FL, attr |-> "s"],
       [flags |-> EXT2_UNRM_FL, attr |-> "u"],
       [flags |-> EXT2_COMPRBLK_FL, attr |-> "B"] >>

ATTR_NUM == Len(check_attr)

\* indices of check_attr (1-based here, 0-based in the source)
Attrs == 1 .. ATTR_NUM

\* chattr_is_modifiable () with | written for &
chattr_is_modifiable_or(i) == BitOr(check_attr[i].flags, EXT2_FL_USER_MODIFIABLE) # {}

chattr_is_modifiable(i) == BitAnd(check_attr[i].flags, EXT2_FL_USER_MODIFIABLE) # {}

(* ------------------------------- state --------------------------------- *)

Files == 0 .. (NumFiles - 1)

VARIABLES
    selected,       \* check_attr[i].selected
    check,          \* CHECK (check_attr[i].check)->state
    flags,          \* static unsigned long flags
    and_mask,       \* static unsigned long and_mask
    or_mask,        \* static unsigned long or_mask
    flags_changed,  \* static gboolean flags_changed
    current_file,   \* static int current_file
    ignore_all,     \* static gboolean ignore_all
    f_marked,       \* current_panel->dir.list[i].f.marked
    marked,         \* current_panel->marked
    cursor,         \* index of selection (current_panel)
    disk,           \* the attribute word of each file, as fgetflags reads it
    pc,             \* where chattr_cmd stands
    site,           \* the call of fsetflags that is in progress
    target,         \* the file the dialog or the write in progress is about
    m,              \* the argument m of do_chattr / try_chattr
    result,         \* the local result of chattr_cmd
    single_set,     \* the local single_set of chattr_init
    is_local,       \* what vfs_current_is_local () answers
    start_marked,   \* the marks of the panel when chattr_cmd was called
    start_disk,     \* the attribute words when chattr_cmd was called
    log             \* what the run did so far: reads, writes, prompts, messages

vars == << selected, check, flags, and_mask, or_mask, flags_changed, current_file,
           ignore_all, f_marked, marked, cursor, disk, pc, site, target, m, result,
           single_set, is_local, start_marked, start_disk, log >>

attrVars == << selected, check >>
maskVars == << and_mask, or_mask >>
panelVars == << f_marked, marked >>
startVars == << start_marked, start_disk >>

(* ------------------------------ the panel ------------------------------ *)

\* do_file_mark (panel, idx, mark) of panel.c, on the pair p of the panel's
\* per-entry marks and its count of marked entries: nothing happens when the
\* entry already has the mark, otherwise the entry is set and the count moves
do_file_mark(p, idx, mark) ==
    IF p.f_marked[idx] = mark
    THEN p
    ELSE [f_marked |-> [p.f_marked EXCEPT ![idx] = mark],
          marked |-> IF mark THEN p.marked + 1 ELSE p.marked - 1]

panel == [f_marked |-> f_marked, marked |-> marked]

\* next_file (): the first index at or after cf whose entry is marked. The
\* scan of the source has no upper limit; NumFiles stands for a scan that left
\* the list, and the actions that call next_file () are enabled only when the
\* scan stays inside it.
RECURSIVE next_file_from(_, _)
next_file_from(fm, cf) ==
    IF cf >= NumFiles THEN NumFiles
    ELSE IF fm[cf] THEN cf
    ELSE next_file_from(fm, cf + 1)

next_file == next_file_from(f_marked, current_file)

(* ------------------------------- the log ------------------------------- *)

\* the failing reads and writes of the run so far
NumFailures(l) ==
    Cardinality({k \in 1 .. Len(l) : l[k].op \in {"fgetflags", "fsetflags"} /\ ~l[k].ok})

MayFail == NumFailures(log) < MaxFail

\* An event of the log: op is "fgetflags" or "fsetflags" (a call, val the word
\* read or written, ok whether it succeeded), "query" (the query dialog of
\* try_chattr () opens), "answer" (val is its result), "message" (an error
\* message is shown) or "dlg_run" (the attribute dialog ends, val is the
\* button); file is the file the event is about.
Ev(op, f, val, ok) == [op |-> op, file |-> f, val |-> val, ok |-> ok]

(* ------------------------------- Init ---------------------------------- *)

\* the attribute words the files may have when chattr_cmd is called: between
\* them every bit of the word is 1 in one and 0 in the other
InitWords == {EXT2_SECRM_FL, BitNot(EXT2_SECRM_FL)}

\* the attribute words of the files when chattr_cmd is called: neighbours in
\* the list have different words, and the first file has either
InitDisk ==
    {[f \in Files |-> IF f % 2 = 0 THEN w ELSE BitNot(w)] : w \in InitWords}

\* the selected marks chattr_cmd may find: the table check_attr is static, all
\* marks are FALSE when the program starts and an earlier call may have left
\* any mark of a modifiable attribute set
InitSelected ==
    {s \in [Attrs -> BOOLEAN] : \A i \in Attrs : s[i] => chattr_is_modifiable(i)}

\* The state in which chattr_cmd is called. current_file, ignore_all and the
\* selected marks hold what an earlier call left in them.
Init ==
    /\ selected \in InitSelected
    /\ check = [i \in Attrs |-> FALSE]
    /\ flags = {}
    /\ and_mask = {}
    /\ or_mask = {}
    /\ flags_changed = FALSE
    /\ current_file \in Files
    /\ ignore_all \in BOOLEAN
    /\ f_marked \in [Files -> BOOLEAN]
    /\ marked = Cardinality({i \in Files : f_marked[i]})
    /\ cursor \in (IF marked = 0 THEN Files ELSE {0})
    /\ disk \in InitDisk
    /\ pc = "start"
    /\ site = "none"
    /\ target = 0
    /\ m = {}
    /\ result = "none"
    /\ single_set = FALSE
    /\ is_local \in BOOLEAN
    /\ start_marked = f_marked
    /\ start_disk = disk
    /\ log = << >>

(* --------------------------- chattr_cmd: entry ------------------------- *)

\* chattr_cmd () up to the first pass of its loop
ChattrCmd ==
    /\ pc = "start"
    /\ current_file' = 0
    /\ ignore_all' = FALSE
    /\ pc' = "loop"
    /\ UNCHANGED << attrVars, flags, maskVars, flags_changed, panelVars, cursor, disk,
                    site, target, m, result, single_set, is_local, startVars, log >>

\* the loop body when vfs_current_is_local () is false
NotLocal ==
    /\ pc = "loop"
    /\ ~is_local
    /\ log' = Append(log, Ev("message", target, "non-local", TRUE))
    /\ pc' = "returned"
    /\ UNCHANGED << attrVars, flags, maskVars, flags_changed, current_file, ignore_all,
                    panelVars, cursor, disk, site, target, m, result, single_set, is_local, startVars >>

\* the file the loop body is about: next_file () or the selection
LoopFile == IF marked # 0 THEN next_file ELSE cursor

\* GetFlagsFail without the message: the failure ends chattr_cmd silently
GetFlagsFail_silent ==
    /\ pc = "loop"
    /\ is_local
    /\ LoopFile \in Files
    /\ MayFail
    /\ current_file' = IF marked # 0 THEN LoopFile ELSE current_file
    /\ target' = LoopFile
    /\ log' = Append(log, Ev("fgetflags", LoopFile, {}, FALSE))
    /\ pc' = "returned"
    /\ UNCHANGED << attrVars, flags, maskVars, flags_changed, ignore_all, panelVars,
                    cursor, disk, site, m, result, single_set, is_local, startVars >>

\* the loop body when fgetflags () fails: a message, then break
GetFlagsFail ==
    /\ pc = "loop"
    /\ is_local
    /\ LoopFile \in Files
    /\ MayFail
    /\ current_file' = IF marked # 0 THEN LoopFile ELSE current_file
    /\ target' = LoopFile
    /\ log' = log \o << Ev("fgetflags", LoopFile, {}, FALSE),
                        Ev("message", LoopFile, "Cannot get flags", TRUE) >>
    /\ pc' = "returned"
    /\ UNCHANGED << attrVars, flags, maskVars, flags_changed, ignore_all, panelVars,
                    cursor, disk, site, m, result, single_set, is_local, startVars >>

\* OpenDialog without the test of vfs_current_is_local ()
OpenDialog_no_local_test ==
    /\ pc = "loop"
    /\ LoopFile \in Files
    /\ current_file' = IF marked # 0 THEN LoopFile ELSE current_file
    /\ target' = LoopFile
    /\ flags' = disk[LoopFile]
    /\ flags_changed' = FALSE
    /\ single_set' = (marked < 2)
    /\ check' = [i \in Attrs |->
                    IF chattr_is_modifiable(i)
                    THEN BitAnd(disk[LoopFile], check_attr[i].flags) # {}
                    ELSE check[i]]
    /\ log' = Append(log, Ev("fgetflags", LoopFile, disk[LoopFile], TRUE))
    /\ pc' = "dialog"
    /\ UNCHANGED << selected, maskVars, ignore_all, panelVars, cursor, disk, site, m,
                    result, is_local, startVars >>

\* OpenDialog with chattr_init () clearing the selected marks
OpenDialog_resets_selected ==
    /\ pc = "loop"
    /\ is_local
    /\ LoopFile \in Files
    /\ current_file' = IF marked # 0 THEN LoopFile ELSE current_file
    /\ target' = LoopFile
    /\ flags' = disk[LoopFile]
    /\ flags_changed' = FALSE
    /\ single_set' = (marked < 2)
    /\ check' = [i \in Attrs |->
                    IF chattr_is_modifiable(i)
                    THEN BitAnd(disk[LoopFile], check_attr[i].flags) # {}
                    ELSE check[i]]
    /\ log' = Append(log, Ev("fgetflags", LoopFile, disk[LoopFile], TRUE))
    /\ pc' = "dialog"
    /\ selected' = [i \in Attrs |-> FALSE]
    /\ UNCHANGED << maskVars, ignore_all, panelVars, cursor, disk, site, m,
                    result, is_local, startVars >>

\* the loop body when fgetflags () succeeds, through chattr_init () to dlg_run ()
OpenDialog ==
    /\ pc = "loop"
    /\ is_local
    /\ LoopFile \in Files
    /\ current_file' = IF marked # 0 THEN LoopFile ELSE current_file
    /\ target' = LoopFile
    /\ flags' = disk[LoopFile]
    /\ flags_changed' = FALSE
    /\ single_set' = (marked < 2)
    /\ check' = [i \in Attrs |->
                    IF chattr_is_modifiable(i)
                    THEN BitAnd(disk[LoopFile], check_attr[i].flags) # {}
                    ELSE check[i]]
    /\ log' = Append(log, Ev("fgetflags", LoopFile, disk[LoopFile], TRUE))
    /\ pc' = "dialog"
    /\ UNCHANGED << selected, maskVars, ignore_all, panelVars, cursor, disk, site, m,
                    result, is_local, startVars >>

(* ------------------------------ the dialog ----------------------------- *)

\* chattr_toggle_select (Id), on the function sel of the selected marks
chattr_toggle_select(sel, Id) == [sel EXCEPT ![Id] = ~sel[Id]]

\* Notify without the call of chattr_toggle_select ()
Notify_no_select(i) ==
    /\ pc = "dialog"
    /\ chattr_is_modifiable(i)
    /\ check' = [check EXCEPT ![i] = ~check[i]]
    /\ flags' = BitXor(flags, check_attr[i].flags)
    /\ flags_changed' = TRUE
    /\ UNCHANGED << selected, maskVars, current_file, ignore_all, panelVars, cursor, disk, pc,
                    site, target, m, result, single_set, is_local, startVars, log >>

\* Notify with flags |= check_attr[i].flags written for ^=
Notify_flags_or(i) ==
    /\ pc = "dialog"
    /\ chattr_is_modifiable(i)
    /\ check' = [check EXCEPT ![i] = ~check[i]]
    /\ flags' = BitOr(flags, check_attr[i].flags)
    /\ selected' = chattr_toggle_select(selected, i)
    /\ flags_changed' = TRUE
    /\ UNCHANGED << maskVars, current_file, ignore_all, panelVars, cursor, disk, pc,
                    site, target, m, result, single_set, is_local, startVars, log >>

\* chattr_callback (), MSG_NOTIFY from the checkbox of attribute i: the
\* checkbox has switched its state before it notifies the dialog
Notify(i) ==
    /\ pc = "dialog"
    /\ chattr_is_modifiable(i)
    /\ check' = [check EXCEPT ![i] = ~check[i]]
    /\ flags' = BitXor(flags, check_attr[i].flags)
    /\ selected' = chattr_toggle_select(selected, i)
    /\ flags_changed' = TRUE
    /\ UNCHANGED << maskVars, current_file, ignore_all, panelVars, cursor, disk, pc,
                    site, target, m, result, single_set, is_local, startVars, log >>

\* chattr_callback (), MSG_KEY with 'T', 't' or KEY_IC while the checkbox of
\* attribute i has the focus
KeyToggle(i) ==
    /\ pc = "dialog"
    /\ chattr_is_modifiable(i)
    /\ selected' = chattr_toggle_select(selected, i)
    /\ UNCHANGED << check, flags, maskVars, flags_changed, current_file, ignore_all,
                    panelVars, cursor, disk, pc, site, target, m, result, single_set,
                    is_local, startVars, log >>

(* ------------------------------ the masks ------------------------------ *)

\* MaskStep with case B_MARKED taking every modifiable attribute, as case
\* B_SETALL does, whether it is selected or not
MaskStep_marked_unselected(res, chk, sel, mk, i) ==
    CASE res \in {"B_SETALL", "B_MARKED"} ->
            IF chattr_is_modifiable(i)
            THEN IF chk[i]
                 THEN [mk EXCEPT !.or_mask = BitOr(mk.or_mask, check_attr[i].flags)]
                 ELSE [mk EXCEPT !.and_mask = BitAnd(mk.and_mask, BitNot(check_attr[i].flags))]
            ELSE mk
      [] res = "B_SETMRK" ->
            IF chattr_is_modifiable(i) /\ sel[i]
            THEN [mk EXCEPT !.or_mask = BitOr(mk.or_mask, check_attr[i].flags)]
            ELSE mk
      [] res = "B_CLRMRK" ->
            IF chattr_is_modifiable(i) /\ sel[i]
            THEN [mk EXCEPT !.and_mask = BitAnd(mk.and_mask, BitNot(check_attr[i].flags))]
            ELSE mk

\* one pass of the loops over check_attr in the cases B_SETALL / B_MARKED,
\* B_SETMRK and B_CLRMRK of chattr_cmd, on the mask pair mk
MaskStep(res, chk, sel, mk, i) ==
    CASE res \in {"B_SETALL", "B_MARKED"} ->
            IF chattr_is_modifiable(i) /\ (sel[i] \/ res = "B_SETALL")
            THEN IF chk[i]
                 THEN [mk EXCEPT !.or_mask = BitOr(mk.or_mask, check_attr[i].flags)]
                 ELSE [mk EXCEPT !.and_mask = BitAnd(mk.and_mask, BitNot(check_attr[i].flags))]
            ELSE mk
      [] res = "B_SETMRK" ->
            IF chattr_is_modifiable(i) /\ sel[i]
            THEN [mk EXCEPT !.or_mask = BitOr(mk.or_mask, check_attr[i].flags)]
            ELSE mk
      [] res = "B_CLRMRK" ->
            IF chattr_is_modifiable(i) /\ sel[i]
            THEN [mk EXCEPT !.and_mask = BitAnd(mk.and_mask, BitNot(check_attr[i].flags))]
            ELSE mk

\* the loop for (i = 0; i < ATTR_NUM; i++), from attribute i on
RECURSIVE MaskLoop(_, _, _, _, _)
MaskLoop(res, chk, sel, mk, i) ==
    IF i > ATTR_NUM THEN mk
    ELSE MaskLoop(res, chk, sel, MaskStep(res, chk, sel, mk, i), i + 1)

\* BuildMask with and_mask starting at 0 as or_mask does
BuildMask_and_zero(res, chk, sel) ==
    MaskLoop(res, chk, sel, [and_mask |-> {}, or_mask |-> {}], 1)

\* or_mask = 0; and_mask = ~0; and the loop
BuildMask(res, chk, sel) ==
    MaskLoop(res, chk, sel, [and_mask |-> AllOnes, or_mask |-> {}], 1)

\* MaskedFlags with ^ written for |
MaskedFlags_xor(w, am, om) == BitXor(BitAnd(w, am), om)

\* MaskedFlags without m &= and_mask
MaskedFlags_no_and(w, am, om) == BitOr(w, om)

\* m &= and_mask; m |= or_mask; of do_chattr ()
MaskedFlags(w, am, om) == BitOr(BitAnd(w, am), om)

(* ----------------------- chattr_cmd: end of a pass ---------------------- *)

\* The end of the loop body of chattr_cmd, after the switch: the current file
\* is unmarked unless the pass was cancelled, and the loop goes on while files
\* are marked and end_chattr is not set. p is the panel, cf the current file,
\* res the local result and end_chattr the local of that name.
LoopTail(p, cf, res, end_chattr) ==
    LET p1 == IF p.marked # 0 /\ res # "B_CANCEL"
              THEN do_file_mark(p, cf, FALSE)
              ELSE p
    IN  /\ f_marked' = p1.f_marked
        /\ marked' = p1.marked
        /\ result' = res
        /\ pc' = IF p1.marked # 0 /\ ~end_chattr THEN "loop" ELSE "returned"

(* ------------------------------ the buttons ---------------------------- *)

\* case B_CANCEL
ButtonCancel ==
    /\ pc = "dialog"
    /\ LoopTail(panel, current_file, "B_CANCEL", TRUE)
    /\ log' = Append(log, Ev("dlg_run", target, "B_CANCEL", TRUE))
    /\ UNCHANGED << attrVars, flags, maskVars, flags_changed, current_file, ignore_all,
                    cursor, disk, site, target, m, single_set, is_local, startVars >>

\* case B_ENTER with flags_changed false
ButtonEnterUnchanged ==
    /\ pc = "dialog"
    /\ ~flags_changed
    /\ LoopTail(panel, current_file, "B_ENTER", FALSE)
    /\ log' = Append(log, Ev("dlg_run", target, "B_ENTER", TRUE))
    /\ UNCHANGED << attrVars, flags, maskVars, flags_changed, current_file, ignore_all,
                    cursor, disk, site, target, m, single_set, is_local, startVars >>

\* ButtonEnterChanged with try_chattr () called for a single or last file too
ButtonEnterChanged_always_try ==
    /\ pc = "dialog"
    /\ flags_changed
    /\ result' = "B_ENTER"
    /\ site' = "enter"
    /\ m' = flags
    /\ pc' = "fsetflags"
    /\ log' = Append(log, Ev("dlg_run", target, "B_ENTER", TRUE))
    /\ UNCHANGED << attrVars, flags, maskVars, flags_changed, current_file, ignore_all,
                    panelVars, cursor, disk, target, single_set, is_local, startVars >>

\* case B_ENTER with flags_changed true, up to the call of fsetflags (): the
\* plain call for a single or last file, the call in try_chattr () otherwise
ButtonEnterChanged ==
    /\ pc = "dialog"
    /\ flags_changed
    /\ result' = "B_ENTER"
    /\ site' = IF marked <= 1 THEN "single" ELSE "enter"
    /\ m' = flags
    /\ pc' = "fsetflags"
    /\ log' = Append(log, Ev("dlg_run", target, "B_ENTER", TRUE))
    /\ UNCHANGED << attrVars, flags, maskVars, flags_changed, current_file, ignore_all,
                    panelVars, cursor, disk, target, single_set, is_local, startVars >>

\* the buttons chattr_init () adds when more than one file is marked
MaskButtons == {"B_SETALL", "B_MARKED", "B_SETMRK", "B_CLRMRK"}

\* ButtonMask with the batch buttons in the dialog of a single file too
ButtonMask_single(res) ==
    /\ pc = "dialog"
    /\ res \in MaskButtons
    /\ LET mk == BuildMask(res, check, selected)
       IN  /\ and_mask' = mk.and_mask
           /\ or_mask' = mk.or_mask
           /\ m' = MaskedFlags(flags, mk.and_mask, mk.or_mask)
    /\ result' = res
    /\ site' = "first"
    /\ pc' = "fsetflags"
    /\ log' = Append(log, Ev("dlg_run", target, res, TRUE))
    /\ UNCHANGED << attrVars, flags, flags_changed, current_file, ignore_all, panelVars,
                    cursor, disk, target, single_set, is_local, startVars >>

\* cases B_SETALL, B_MARKED, B_SETMRK and B_CLRMRK: the masks, then
\* chattr_apply_mask () and do_chattr () up to the call of fsetflags () in
\* try_chattr ()
ButtonMask(res) ==
    /\ pc = "dialog"
    /\ ~single_set
    /\ res \in MaskButtons
    /\ LET mk == BuildMask(res, check, selected)
       IN  /\ and_mask' = mk.and_mask
           /\ or_mask' = mk.or_mask
           /\ m' = MaskedFlags(flags, mk.and_mask, mk.or_mask)
    /\ result' = res
    /\ site' = "first"
    /\ pc' = "fsetflags"
    /\ log' = Append(log, Ev("dlg_run", target, res, TRUE))
    /\ UNCHANGED << attrVars, flags, flags_changed, current_file, ignore_all, panelVars,
                    cursor, disk, target, single_set, is_local, startVars >>

(* --------------------- fsetflags () and try_chattr () ------------------ *)

\* AfterWrite with the do loop of chattr_apply_mask () going on while files are
\* marked, whatever do_chattr () returned
AfterWrite_ignores_ret(ret) ==
    LET unmarked == do_file_mark(panel, current_file, FALSE)
    IN  CASE site = "single" ->
                LoopTail(panel, current_file, result, TRUE)
          [] site = "enter" ->
                LoopTail(panel, current_file, IF ret THEN result ELSE "B_CANCEL", ~ret)
          [] site = "first" ->
                IF ret
                THEN /\ f_marked' = unmarked.f_marked
                     /\ marked' = unmarked.marked
                     /\ pc' = "apply"
                     /\ UNCHANGED result
                ELSE LoopTail(unmarked, current_file, result, TRUE)
          [] site = "next" ->
                IF unmarked.marked # 0
                THEN /\ f_marked' = unmarked.f_marked
                     /\ marked' = unmarked.marked
                     /\ pc' = "apply"
                     /\ UNCHANGED result
                ELSE LoopTail(unmarked, current_file, result, TRUE)

\* AfterWrite with the do loop of chattr_apply_mask () written while (ok)
AfterWrite_no_marked_test(ret) ==
    LET unmarked == do_file_mark(panel, current_file, FALSE)
    IN  CASE site = "single" ->
                LoopTail(panel, current_file, result, TRUE)
          [] site = "enter" ->
                LoopTail(panel, current_file, IF ret THEN result ELSE "B_CANCEL", ~ret)
          [] site = "first" ->
                IF ret
                THEN /\ f_marked' = unmarked.f_marked
                     /\ marked' = unmarked.marked
                     /\ pc' = "apply"
                     /\ UNCHANGED result
                ELSE LoopTail(unmarked, current_file, result, TRUE)
          [] site = "next" ->
                IF ret
                THEN /\ f_marked' = unmarked.f_marked
                     /\ marked' = unmarked.marked
                     /\ pc' = "apply"
                     /\ UNCHANGED result
                ELSE LoopTail(unmarked, current_file, result, TRUE)

\* What follows the return of try_chattr () with value ret (or, at site
\* "single", the plain fsetflags () of chattr_cmd): the rest of do_chattr ()
\* and of chattr_apply_mask () for the sites "first" and "next", the rest of
\* case B_ENTER for the sites "enter" and "single", then the end of the pass.
AfterWrite(ret) ==
    LET unmarked == do_file_mark(panel, current_file, FALSE)
    IN  CASE site = "single" ->
                LoopTail(panel, current_file, result, TRUE)
          [] site = "enter" ->
                LoopTail(panel, current_file, IF ret THEN result ELSE "B_CANCEL", ~ret)
          [] site = "first" ->
                IF ret
                THEN /\ f_marked' = unmarked.f_marked
                     /\ marked' = unmarked.marked
                     /\ pc' = "apply"
                     /\ UNCHANGED result
                ELSE LoopTail(unmarked, current_file, result, TRUE)
          [] site = "next" ->
                IF ret /\ unmarked.marked # 0
                THEN /\ f_marked' = unmarked.f_marked
                     /\ marked' = unmarked.marked
                     /\ pc' = "apply"
                     /\ UNCHANGED result
                ELSE LoopTail(unmarked, current_file, result, TRUE)

\* fsetflags (p, m) succeeds
FsetflagsOk ==
    /\ pc = "fsetflags"
    /\ disk' = [disk EXCEPT ![target] = m]
    /\ log' = Append(log, Ev("fsetflags", target, m, TRUE))
    /\ AfterWrite(TRUE)
    /\ site' = "none"
    /\ UNCHANGED << attrVars, flags, maskVars, flags_changed, current_file, ignore_all,
                    cursor, target, m, single_set, is_local, startVars >>

\* FsetflagsFail with try_chattr () opening the query dialog whether
\* ignore_all is set or not
FsetflagsFail_always_asks ==
    /\ pc = "fsetflags"
    /\ MayFail
    /\ LET failed == Append(log, Ev("fsetflags", target, m, FALSE))
       IN  IF site = "single"
           THEN /\ log' = IF ~ignore_all
                          THEN Append(failed, Ev("message", target, "Cannot chattr", TRUE))
                          ELSE failed
                /\ AfterWrite(TRUE)
                /\ site' = "none"
           ELSE /\ log' = Append(failed, Ev("query", target, "Cannot chattr", TRUE))
                /\ pc' = "query"
                /\ UNCHANGED << panelVars, result, site >>
    /\ UNCHANGED << attrVars, flags, maskVars, flags_changed, current_file, ignore_all,
                    cursor, disk, target, m, single_set, is_local, startVars >>

\* fsetflags (p, m) fails: in try_chattr () the query dialog opens unless
\* ignore_all is set; at site "single" a message is shown unless ignore_all is
\* set
FsetflagsFail ==
    /\ pc = "fsetflags"
    /\ MayFail
    /\ LET failed == Append(log, Ev("fsetflags", target, m, FALSE))
       IN  IF site = "single"
           THEN /\ log' = IF ~ignore_all
                          THEN Append(failed, Ev("message", target, "Cannot chattr", TRUE))
                          ELSE failed
                /\ AfterWrite(TRUE)
                /\ site' = "none"
           ELSE IF ignore_all
           THEN /\ log' = failed
                /\ AfterWrite(TRUE)
                /\ site' = "none"
           ELSE /\ log' = Append(failed, Ev("query", target, "Cannot chattr", TRUE))
                /\ pc' = "query"
                /\ UNCHANGED << panelVars, result, site >>
    /\ UNCHANGED << attrVars, flags, maskVars, flags_changed, current_file, ignore_all,
                    cursor, disk, target, m, single_set, is_local, startVars >>

\* the results of query_dialog (): the four buttons 0 .. 3, and -1 when the
\* dialog is closed without a button
QueryResults == {-1, 0, 1, 2, 3}

\* QueryAnswer with case 2 (Retry) returning TRUE as case 0 (Ignore) does
QueryAnswer_retry_skips(r) ==
    /\ pc = "query"
    /\ r \in QueryResults
    /\ log' = Append(log, Ev("answer", target, r, TRUE))
    /\ CASE r \in {0, 2} ->
                /\ AfterWrite(TRUE)
                /\ site' = "none"
                /\ UNCHANGED ignore_all
         [] r = 1 ->
                /\ ignore_all' = TRUE
                /\ AfterWrite(TRUE)
                /\ site' = "none"
         [] OTHER ->
                /\ AfterWrite(FALSE)
                /\ site' = "none"
                /\ UNCHANGED ignore_all
    /\ UNCHANGED << attrVars, flags, maskVars, flags_changed, current_file, cursor, disk,
                    target, m, single_set, is_local, startVars >>

\* QueryAnswer with case 0 falling through to case 1: "Ignore" sets ignore_all
QueryAnswer_ignore_sets_all(r) ==
    /\ pc = "query"
    /\ r \in QueryResults
    /\ log' = Append(log, Ev("answer", target, r, TRUE))
    /\ CASE r = 0 ->
                /\ ignore_all' = TRUE
                /\ AfterWrite(TRUE)
                /\ site' = "none"
         [] r = 1 ->
                /\ ignore_all' = TRUE
                /\ AfterWrite(TRUE)
                /\ site' = "none"
         [] r = 2 ->
                /\ pc' = "fsetflags"
                /\ UNCHANGED << ignore_all, panelVars, result, site >>
         [] OTHER ->
                /\ AfterWrite(FALSE)
                /\ site' = "none"
                /\ UNCHANGED ignore_all
    /\ UNCHANGED << attrVars, flags, maskVars, flags_changed, current_file, cursor, disk,
                    target, m, single_set, is_local, startVars >>

\* the switch on the result of query_dialog () in try_chattr ()
QueryAnswer(r) ==
    /\ pc = "query"
    /\ r \in QueryResults
    /\ log' = Append(log, Ev("answer", target, r, TRUE))
    /\ CASE r = 0 ->
                /\ AfterWrite(TRUE)
                /\ site' = "none"
                /\ UNCHANGED ignore_all
         [] r = 1 ->
                /\ ignore_all' = TRUE
                /\ AfterWrite(TRUE)
                /\ site' = "none"
         [] r = 2 ->
                /\ pc' = "fsetflags"
                /\ UNCHANGED << ignore_all, panelVars, result, site >>
         [] OTHER ->
                /\ AfterWrite(FALSE)
                /\ site' = "none"
                /\ UNCHANGED ignore_all
    /\ UNCHANGED << attrVars, flags, maskVars, flags_changed, current_file, cursor, disk,
                    target, m, single_set, is_local, startVars >>

(* ------------------ chattr_apply_mask (): the do loop ------------------ *)

\* ApplyReadFail with ok left FALSE: the file is unmarked and the do loop ends
ApplyReadFail_stops ==
    /\ pc = "apply"
    /\ next_file \in Files
    /\ MayFail
    /\ current_file' = next_file
    /\ target' = next_file
    /\ log' = Append(log, Ev("fgetflags", next_file, {}, FALSE))
    /\ LoopTail(do_file_mark(panel, next_file, FALSE), next_file, result, TRUE)
    /\ UNCHANGED << attrVars, flags, maskVars, flags_changed, ignore_all, cursor, disk,
                    site, m, single_set, is_local, startVars >>

\* the body of the do loop when fgetflags () fails: the file is unmarked and
\* the loop goes on while files are marked
ApplyReadFail ==
    /\ pc = "apply"
    /\ next_file \in Files
    /\ MayFail
    /\ current_file' = next_file
    /\ target' = next_file
    /\ log' = Append(log, Ev("fgetflags", next_file, {}, FALSE))
    /\ LET unmarked == do_file_mark(panel, next_file, FALSE)
       IN  IF unmarked.marked # 0
           THEN /\ f_marked' = unmarked.f_marked
                /\ marked' = unmarked.marked
                /\ pc' = "apply"
                /\ UNCHANGED result
           ELSE LoopTail(unmarked, next_file, result, TRUE)
    /\ UNCHANGED << attrVars, flags, maskVars, flags_changed, ignore_all, cursor, disk,
                    site, m, single_set, is_local, startVars >>

\* ApplyReadOk with do_chattr () given the flags of the dialog instead of the
\* word just read
ApplyReadOk_first_flags ==
    /\ pc = "apply"
    /\ next_file \in Files
    /\ current_file' = next_file
    /\ target' = next_file
    /\ flags' = disk[next_file]
    /\ m' = MaskedFlags(flags, and_mask, or_mask)
    /\ log' = Append(log, Ev("fgetflags", next_file, disk[next_file], TRUE))
    /\ site' = "next"
    /\ pc' = "fsetflags"
    /\ UNCHANGED << attrVars, maskVars, flags_changed, ignore_all, panelVars, cursor,
                    disk, result, single_set, is_local, startVars >>

\* ApplyReadOk without the call of next_file (): the file at current_file is
\* read and written again
ApplyReadOk_stale_cursor ==
    /\ pc = "apply"
    /\ UNCHANGED current_file
    /\ target' = current_file
    /\ flags' = disk[current_file]
    /\ m' = MaskedFlags(disk[current_file], and_mask, or_mask)
    /\ log' = Append(log, Ev("fgetflags", current_file, disk[current_file], TRUE))
    /\ site' = "next"
    /\ pc' = "fsetflags"
    /\ UNCHANGED << attrVars, maskVars, flags_changed, ignore_all, panelVars, cursor,
                    disk, result, single_set, is_local, startVars >>

\* the body of the do loop when fgetflags () succeeds, through do_chattr () up
\* to the call of fsetflags () in try_chattr ()
ApplyReadOk ==
    /\ pc = "apply"
    /\ next_file \in Files
    /\ current_file' = next_file
    /\ target' = next_file
    /\ flags' = disk[next_file]
    /\ m' = MaskedFlags(disk[next_file], and_mask, or_mask)
    /\ log' = Append(log, Ev("fgetflags", next_file, disk[next_file], TRUE))
    /\ site' = "next"
    /\ pc' = "fsetflags"
    /\ UNCHANGED << attrVars, maskVars, flags_changed, ignore_all, panelVars, cursor,
                    disk, result, single_set, is_local, startVars >>

(* ---------------------------- specification ---------------------------- *)

Next ==
    \/ ChattrCmd
    \/ NotLocal
    \/ GetFlagsFail
    \/ OpenDialog
    \/ \E i \in Attrs : Notify(i)
    \/ \E i \in Attrs : KeyToggle(i)
    \/ ButtonCancel
    \/ ButtonEnterUnchanged
    \/ ButtonEnterChanged
    \/ \E res \in MaskButtons : ButtonMask(res)
    \/ FsetflagsOk
    \/ FsetflagsFail
    \/ \E r \in QueryResults : QueryAnswer(r)
    \/ ApplyReadFail
    \/ ApplyReadOk

Spec == Init /\ [][Next]_vars

\* a step of a batch in progress: fsetflags () or fgetflags () returns, or the
\* modal query dialog of try_chattr () is answered
BatchStep ==
    \/ FsetflagsOk
    \/ FsetflagsFail
    \/ \E r \in QueryResults : QueryAnswer(r)
    \/ ApplyReadFail
    \/ ApplyReadOk

\* chattr_cmd runs in one thread that blocks only in the system calls and in
\* the query dialog: a batch that can take a step takes one
FairSpec == Spec /\ WF_vars(BatchStep)

TypeOK ==
    /\ pc \in {"start", "loop", "dialog", "fsetflags", "query", "apply", "returned"}
    /\ marked \in 0 .. NumFiles

(* ------------------------------- claims -------------------------------- *)

\* the bits of the attributes of check_attr the user may change, and of those
\* the user may not
ModifiableAttrBits ==
    UNION {BitAnd(check_attr[i].flags, EXT2_FL_USER_MODIFIABLE) : i \in Attrs}
FixedAttrBits ==
    UNION {check_attr[i].flags : i \in Attrs} \ EXT2_FL_USER_MODIFIABLE

\* attribute i takes part in the batch of the button pressed
Participates(i) ==
    /\ check_attr[i].flags \subseteq EXT2_FL_USER_MODIFIABLE
    /\ (result = "B_SETALL" \/ selected[i])

\* the batch of the button pressed forces the bit of attribute i on
ForcedOn(i) ==
    IF result \in {"B_SETALL", "B_MARKED"} THEN check[i] ELSE result = "B_SETMRK"

\* C1: after each of the four batch buttons, every bit of the mask pair is as
\* the decision table says: the bit of a participating modifiable attribute is
\* 1 in or_mask and and_mask when it is forced on, 0 in both when it is forced
\* off, and every other bit is 1 in and_mask and 0 in or_mask.
C1_MaskDecisionTable ==
    result \in MaskButtons =>
        \A b \in Bits :
            LET P == {i \in Attrs : b \in check_attr[i].flags /\ Participates(i)}
            IN  IF P = {}
                THEN b \in and_mask /\ b \notin or_mask
                ELSE \A i \in P :
                        IF ForcedOn(i)
                        THEN b \in or_mask /\ b \in and_mask
                        ELSE b \notin or_mask /\ b \notin and_mask

\* "Marked all" pressed with attribute 1 selected and off, attribute 2 not
\* selected and on
C1_Witness ==
    /\ result = "B_MARKED"
    /\ selected[1] /\ ~check[1]
    /\ ~selected[2] /\ check[2]

\* C2: after each batch button the bit of every attribute that is not
\* modifiable is 1 in and_mask and 0 in or_mask, and the word about to be
\* written to a file has the value of that bit the file has.
C2_FixedBitsIdentity ==
    result \in MaskButtons =>
        /\ FixedAttrBits \subseteq and_mask
        /\ BitAnd(FixedAttrBits, or_mask) = {}
        /\ pc = "fsetflags" =>
                BitAnd(m, FixedAttrBits) = BitAnd(disk[target], FixedAttrBits)

\* a "Set all" batch has written a new word to a file whose non-modifiable
\* bit is set
C2_Witness ==
    /\ result = "B_SETALL"
    /\ pc = "returned"
    /\ \E f \in Files :
            /\ EXT2_COMPRBLK_FL \subseteq disk[f]
            /\ disk[f] # start_disk[f]

(* --------------------------- reading the log --------------------------- *)

LogIdx == DOMAIN log

\* one of the four batch buttons ended the dialog of this run
InMaskBatch == result \in MaskButtons

FailedRead(k) == log[k].op = "fgetflags" /\ ~log[k].ok
FailedWrite(k) == log[k].op = "fsetflags" /\ ~log[k].ok

\* event k is the query dialog of try_chattr () or the message of the plain
\* fsetflags () of chattr_cmd: the user is told that the write failed
WritePrompt(k) ==
    \/ log[k].op = "query"
    \/ (log[k].op = "message" /\ log[k].val = "Cannot chattr")

\* event k is an answer to the query dialog that stops the batch: Cancel, or
\* the dialog closed without a button
CancelAnswer(k) == log[k].op = "answer" /\ log[k].val \notin {0, 1, 2}

\* the user answered "Ignore all" before event k
IgnoringAt(k) == \E j \in LogIdx : j < k /\ log[j].op = "answer" /\ log[j].val = 1

\* the file whose dialog ended with the batch button, and the files of the
\* batch: the files that were marked, from that file on
BatchFirst ==
    log[CHOOSE k \in LogIdx : log[k].op = "dlg_run" /\ log[k].val \in MaskButtons].file
BatchFiles == {f \in Files : start_marked[f] /\ f >= BatchFirst}

\* C3: when Cancel answers a write failure on file K of a mask batch, nothing
\* is read or written after the answer, no file after K was read or written
\* before it, chattr_cmd returns, and every file after K that was marked
\* before the batch is still marked and has the attribute word it had.
C3_CancelStopsBatch ==
    \A k \in LogIdx :
        (InMaskBatch /\ CancelAnswer(k)) =>
            /\ k = Len(log)
            /\ pc = "returned"
            /\ \A j \in LogIdx :
                    log[j].op \in {"fgetflags", "fsetflags"} => log[j].file <= log[k].file
            /\ \A f \in Files :
                    (f > log[k].file /\ start_marked[f]) =>
                        (f_marked[f] /\ disk[f] = start_disk[f])

\* Cancel on a file that is not the first of the batch, with a marked file
\* after it
C3_Witness ==
    /\ InMaskBatch
    /\ Len(log) > 0
    /\ CancelAnswer(Len(log))
    /\ log[Len(log)].val = 3
    /\ log[Len(log)].file > BatchFirst
    /\ \E f \in Files : f > log[Len(log)].file /\ start_marked[f]

\* C4: ignore_all is false from the start of chattr_cmd until the user answers
\* "Ignore all"; from that answer on it is true, no query dialog and no
\* "Cannot chattr" message is shown, and a file whose write fails is written
\* no second time and is left unmarked.
C4_IgnoreAllSticky ==
    /\ (pc # "start" /\ ~IgnoringAt(Len(log) + 1)) => ~ignore_all
    /\ \A k \in LogIdx :
            (log[k].op = "answer" /\ log[k].val = 1) =>
                /\ ignore_all
                /\ \A j \in LogIdx :
                        j > k =>
                            /\ ~WritePrompt(j)
                            /\ FailedWrite(j) =>
                                    /\ ~f_marked[log[j].file]
                                    /\ \A i \in LogIdx :
                                            i > j => ~(log[i].op = "fsetflags"
                                                       /\ log[i].file = log[j].file)

\* a write fails after the user answered "Ignore all"
C4_Witness ==
    \E k, j \in LogIdx :
        /\ k < j
        /\ log[k].op = "answer" /\ log[k].val = 1
        /\ FailedWrite(j)

\* C5: in a mask batch, a file K whose read fails is unmarked, is never
\* written, keeps its attribute word and raises no query and no message; the
\* next thing the batch does is to read the next file that was marked, and
\* when none is left chattr_cmd returns.
C5_ReadFailureSkipsFile ==
    \A k \in LogIdx :
        (InMaskBatch /\ FailedRead(k)) =>
            LET K == log[k].file
            IN  /\ start_marked[K]
                /\ K > BatchFirst
                /\ ~f_marked[K]
                /\ disk[K] = start_disk[K]
                /\ \A j \in LogIdx : log[j].file = K => log[j].op = "fgetflags"
                /\ IF k = Len(log)
                   THEN IF marked # 0 THEN pc = "apply" ELSE pc = "returned"
                   ELSE /\ log[k + 1].op = "fgetflags"
                        /\ log[k + 1].file > K
                        /\ start_marked[log[k + 1].file]
                        /\ \A f \in Files :
                                (K < f /\ f < log[k + 1].file) => ~start_marked[f]

\* a read failed in a mask batch and the batch went on to write the next
\* marked file
C5_Witness ==
    /\ InMaskBatch
    /\ \E k \in LogIdx :
            /\ FailedRead(k)
            /\ k + 2 <= Len(log)
            /\ log[k + 2].op = "fsetflags" /\ log[k + 2].ok

\* C6 as stated: wherever a read fails, no message is shown and the run goes
\* on while marked files remain.
C6_Original ==
    \A k \in LogIdx :
        FailedRead(k) =>
            /\ \A j \in LogIdx : log[j].op # "message"
            /\ (pc = "returned" /\ k = Len(log)) => marked = 0

\* C6, amended: a read that fails inside a mask batch shows no message and
\* the batch goes on while marked files remain; a read that fails before the
\* dialog is opened shows the message "Cannot get flags" once and chattr_cmd
\* returns at once, leaving that file and the files after it as they were.
C6_ReadFailureVisibility ==
    \A k \in LogIdx :
        FailedRead(k) =>
            IF InMaskBatch
            THEN /\ \A j \in LogIdx : log[j].op # "message"
                 /\ (pc = "returned" /\ k = Len(log)) => marked = 0
            ELSE /\ k + 1 = Len(log)
                 /\ log[k + 1].op = "message"
                 /\ log[k + 1].val = "Cannot get flags"
                 /\ log[k + 1].file = log[k].file
                 /\ pc = "returned"
                 /\ \A f \in Files :
                        f >= log[k].file =>
                            (f_marked[f] = start_marked[f] /\ disk[f] = start_disk[f])

\* the read before the dialog of the second marked file failed while two
\* files were still marked
C6_Witness ==
    /\ pc = "returned"
    /\ marked >= 2
    /\ Len(log) > 2
    /\ log[Len(log)].op = "message"
    /\ FailedRead(Len(log) - 1)

\* the modifiable attributes whose checkbox is on
CheckedAttrs ==
    {i \in Attrs : check_attr[i].flags \subseteq EXT2_FL_USER_MODIFIABLE /\ check[i]}

\* a "Set all" batch has returned, exactly one checkbox was on and no read and
\* no write failed
SetAllOneChecked ==
    /\ pc = "returned"
    /\ result = "B_SETALL"
    /\ Cardinality(CheckedAttrs) = 1
    /\ NumFailures(log) = 0

\* C7 as stated: after a "Set all" batch with exactly one checkbox on and no
\* failure, every file of the batch has that attribute's bit set and every
\* other bit as before the batch, no file is marked and no marked file is
\* left.
C7_Original ==
    SetAllOneChecked =>
        /\ marked = 0
        /\ \A f \in BatchFiles :
                /\ ~f_marked[f]
                /\ \A i \in CheckedAttrs :
                        /\ check_attr[i].flags \subseteq disk[f]
                        /\ disk[f] \ check_attr[i].flags
                                = start_disk[f] \ check_attr[i].flags

\* C7, amended: after a "Set all" batch with exactly one checkbox on and no
\* failure, every file of the batch has that attribute's bit set, the bit of
\* every other modifiable attribute clear and every other bit as before the
\* batch; no file is marked, no marked file is left, and the files outside
\* the batch have the attribute words they had.
C7_SetAllOneChecked ==
    SetAllOneChecked =>
        /\ marked = 0
        /\ \A f \in Files : ~f_marked[f]
        /\ \A f \in BatchFiles :
                \A i \in CheckedAttrs :
                    disk[f] = (start_disk[f] \ ModifiableAttrBits) \cup check_attr[i].flags
        /\ \A f \in Files : ~start_marked[f] => disk[f] = start_disk[f]

\* a "Set all" batch over three files in which the only checkbox that is on
\* is one a file of the batch had off
C7_Witness ==
    /\ SetAllOneChecked
    /\ Cardinality(BatchFiles) >= 3
    /\ \E f \in BatchFiles : \E i \in CheckedAttrs :
            BitAnd(start_disk[f], check_attr[i].flags) = {}

\* C8: in a mask batch the masks are those of the button pressed, and every
\* write to a file after the first is of (w & and_mask) | or_mask, where w is
\* the word just read from that file, which is the word the file had.
C8_OwnFlagsMasked ==
    InMaskBatch =>
        \A j \in LogIdx :
            (log[j].op = "fsetflags" /\ log[j].file > BatchFirst) =>
                \E k \in LogIdx :
                    /\ k < j
                    /\ log[k].op = "fgetflags" /\ log[k].ok
                    /\ log[k].file = log[j].file
                    /\ log[k].val = start_disk[log[j].file]
                    /\ log[j].val = (log[k].val \cap and_mask) \cup or_mask
                    /\ \A i \in LogIdx :
                            (k < i /\ i < j) => log[i].file = log[j].file

\* a mask batch has written a later file whose word differs from the first
\* file's, before and after
C8_Witness ==
    /\ InMaskBatch
    /\ pc = "returned"
    /\ \E f \in BatchFiles :
            /\ f # BatchFirst
            /\ disk[f] # start_disk[f]
            /\ disk[f] # disk[BatchFirst]
            /\ start_disk[f] # start_disk[BatchFirst]

\* the failed writes to file f, and the times the user was told of one, while
\* ignore_all was false
FailedWritesAsked(f) ==
    {k \in LogIdx : FailedWrite(k) /\ log[k].file = f /\ ~IgnoringAt(k)}
WritePrompts(f) == {k \in LogIdx : WritePrompt(k) /\ log[k].file = f}

AllCheckedSetAll ==
    /\ result = "B_SETALL"
    /\ \A i \in Attrs : check_attr[i].flags \subseteq EXT2_FL_USER_MODIFIABLE => check[i]

\* C10 as stated: "Set all" with every checkbox on gives or_mask the
\* modifiable attribute bits and and_mask the same word.
C10_Original ==
    AllCheckedSetAll => (or_mask = ModifiableAttrBits /\ and_mask = or_mask)

\* C10, amended: "Set all" with every checkbox on gives or_mask the modifiable
\* attribute bits and leaves and_mask with every bit 1.
C10_SetAllEverythingOn ==
    AllCheckedSetAll => (or_mask = ModifiableAttrBits /\ and_mask = AllOnes)

\* "Set all" has been pressed with every checkbox on
C10_Witness ==
    /\ AllCheckedSetAll
    /\ pc = "fsetflags"

\* the button that ended the last attribute dialog before event k
ButtonBefore(k) ==
    LET d == {j \in LogIdx : j < k /\ log[j].op = "dlg_run"}
    IN  IF d = {} THEN "none"
        ELSE log[CHOOSE j \in d : \A i \in d : i <= j].val

\* event k is the write of the button "Set" to a single or last file: at most
\* one of the files from that file on was marked
SingleWrite(k) ==
    /\ log[k].op = "fsetflags"
    /\ ButtonBefore(k) = "B_ENTER"
    /\ Cardinality({g \in Files : g >= log[k].file /\ start_marked[g]}) <= 1

\* C11 as stated: a failed write of "Set" to a single or last file opens the
\* query dialog, and after the answer Retry the file is written again.
C11_Original ==
    \A k \in LogIdx :
        (SingleWrite(k) /\ FailedWrite(k) /\ ~IgnoringAt(k)) =>
            /\ k < Len(log)
            /\ log[k + 1].op = "query"

\* C11, amended: "Set" writes a single or last file exactly once; when the
\* write fails no query dialog opens and the file is not written again: one
\* "Cannot chattr" message is shown unless ignore_all is set, the file keeps
\* its attribute word and chattr_cmd returns.
C11_SingleWriteOnce ==
    \A k \in LogIdx :
        SingleWrite(k) =>
            /\ pc = "returned"
            /\ \A j \in LogIdx :
                    (j # k /\ log[j].file = log[k].file) =>
                        log[j].op \notin {"fsetflags", "query", "answer"}
            /\ IF log[k].ok
               THEN k = Len(log) /\ disk[log[k].file] = log[k].val
               ELSE /\ disk[log[k].file] = start_disk[log[k].file]
                    /\ IF IgnoringAt(k)
                       THEN k = Len(log)
                       ELSE /\ k + 1 = Len(log)
                            /\ log[k + 1].op = "message"
                            /\ log[k + 1].val = "Cannot chattr"
                            /\ log[k + 1].file = log[k].file

\* the write of "Set" to a single file failed and the message was shown
C11_Witness ==
    /\ pc = "returned"
    /\ Len(log) > 1
    /\ SingleWrite(Len(log) - 1)
    /\ FailedWrite(Len(log) - 1)
    /\ log[Len(log)].op = "message"

\* C12: when the file system is not local, chattr_cmd shows the message once
\* and returns: it reads and writes no file, opens no dialog and leaves the
\* marks and the attribute words as they were; the message is shown in no
\* other case.
C12_NotLocalNoBatch ==
    /\ ~is_local =>
            /\ pc \in {"start", "loop", "returned"}
            /\ log = IF pc = "returned"
                     THEN << Ev("message", target, "non-local", TRUE) >>
                     ELSE << >>
            /\ f_marked = start_marked
            /\ marked = Cardinality({f \in Files : start_marked[f]})
            /\ disk = start_disk
    /\ is_local =>
            \A k \in LogIdx : ~(log[k].op = "message" /\ log[k].val = "non-local")

\* chattr_cmd has returned from a panel that is not local and has marked files
C12_Witness ==
    /\ ~is_local
    /\ pc = "returned"
    /\ marked >= 2

\* C13: for every word w and the mask pair of every batch button, applying
\* the masks to the masked word gives the masked word again; the word about
\* to be written in a batch is such a fixed point.
C13_MaskIdempotent ==
    InMaskBatch =>
        /\ \A w \in Word :
                MaskedFlags(MaskedFlags(w, and_mask, or_mask), and_mask, or_mask)
                    = MaskedFlags(w, and_mask, or_mask)
        /\ pc = "fsetflags" => MaskedFlags(m, and_mask, or_mask) = m

\* a batch whose masks set one bit and clear another
C13_Witness ==
    /\ InMaskBatch
    /\ or_mask # {}
    /\ and_mask # AllOnes

\* event k settles the mark of its file the way a batch may: the write
\* succeeded, or the file was skipped (read failure, "Ignore", "Ignore all",
\* or a failed write while ignore_all is set)
ResolvedEvent(k) ==
    \/ log[k].op = "fsetflags" /\ (log[k].ok \/ IgnoringAt(k))
    \/ log[k].op = "answer" /\ log[k].val \in {0, 1}
    \/ FailedRead(k)

\* C14 as stated: in a mask batch a file that was marked and no longer is has
\* had its write succeed or has been skipped, and after the answer Cancel on
\* file K the marked files are K and the files after K that were marked.
C14_CancelledFileStaysMarked ==
    InMaskBatch =>
        /\ \A f \in BatchFiles :
                ~f_marked[f] =>
                    \E k \in LogIdx : log[k].file = f /\ ResolvedEvent(k)
        /\ \A k \in LogIdx :
                CancelAnswer(k) =>
                    /\ f_marked[log[k].file]
                    /\ {f \in Files : f_marked[f]}
                         = {f \in Files : start_marked[f] /\ f >= log[k].file}

\* C15 as stated: after the batch of "Marked all", on every file of the batch,
\* the first included, the bits of every attribute that is not selected are
\* the bits the file had when chattr_cmd started.
C15_UnselectedKeptOnEveryFile ==
    (result = "B_MARKED" /\ pc = "returned") =>
        \A f \in BatchFiles : \A i \in Attrs :
            ~selected[i] =>
                BitAnd(disk[f], check_attr[i].flags)
                    = BitAnd(start_disk[f], check_attr[i].flags)

\* the state in which try_chattr () has just returned TRUE / FALSE after the
\* last event of the log: after TRUE the pass goes on when marked files are
\* left, after FALSE chattr_cmd returns whatever is left
ReturnedTrue == pc = IF marked # 0 THEN (IF InMaskBatch THEN "apply" ELSE "loop")
                     ELSE "returned"
ReturnedFalse == pc = "returned" /\ result \in MaskButtons \cup {"B_CANCEL"}

\* C16: the answers of the query dialog. After "Ignore" (0) and "Ignore all"
\* (1) try_chattr returns TRUE and the file is not written again; "Ignore"
\* leaves ignore_all false and "Ignore all" sets it. After "Retry" (2) the
\* next thing done is one write to the same file. After "Cancel" (3) or any
\* other result try_chattr returns FALSE and nothing is written any more.
C16_AnswerOutcomes ==
    \A k \in LogIdx :
        log[k].op = "answer" =>
            LET f == log[k].file
                last == k = Len(log)
                NoMoreWrites ==
                    \A j \in LogIdx : (j > k /\ log[j].file = f) => log[j].op # "fsetflags"
            IN  CASE log[k].val = 0 ->
                        /\ NoMoreWrites
                        /\ last => (ReturnedTrue /\ ~ignore_all)
                  [] log[k].val = 1 ->
                        /\ NoMoreWrites
                        /\ ignore_all
                        /\ last => ReturnedTrue
                  [] log[k].val = 2 ->
                        /\ last => (pc = "fsetflags" /\ target = f)
                        /\ ~last => (log[k + 1].op = "fsetflags" /\ log[k + 1].file = f)
                        /\ k + 2 <= Len(log) =>
                                ~(log[k + 2].op = "fsetflags" /\ log[k + 2].file = f)
                  [] OTHER ->
                        /\ last
                        /\ ReturnedFalse
                        /\ disk[f] = start_disk[f]

\* "Ignore" has just answered the failed write of a file of a mask batch and
\* the batch goes on with the marked files that are left
C16_Witness ==
    /\ Len(log) > 2
    /\ log[Len(log)].op = "answer"
    /\ log[Len(log)].val = 0
    /\ pc = "apply"
    /\ ~ignore_all

\* C17: a mask batch in progress, with the failures (and so the answers Retry)
\* bounded, leads to chattr_cmd returning, with no marked file left or with
\* Cancel as the last answer.
C17_BatchTerminates ==
    (InMaskBatch /\ pc # "returned")
        ~> /\ pc = "returned"
           /\ InMaskBatch
           /\ \/ marked = 0
              \/ CancelAnswer(Len(log))

\* a batch has returned after a Retry, with every marked file processed
C17_Witness ==
    /\ InMaskBatch
    /\ pc = "returned"
    /\ marked = 0
    /\ \E k \in LogIdx : log[k].op = "answer" /\ log[k].val = 2
    /\ Cardinality(BatchFiles) >= 2

\* the step appends a read or a write of flags to the log
IoStep ==
    /\ Len(log') = Len(log) + 1
    /\ log'[Len(log')].op \in {"fgetflags", "fsetflags"}

\* C18: within a run of chattr_cmd current_file never decreases; every read
\* and write is of a file that is marked at that moment (of the file under
\* the cursor when no file is marked), so never of a file unmarked before;
\* the events go through the files in list order; and a query dialog is
\* followed by its answer before anything else is done.
C18_CursorMonotone ==
    /\ [][pc # "start" => current_file' >= current_file]_vars
    /\ [][IoStep => (f_marked[log'[Len(log')].file] \/ marked = 0)]_vars
    /\ [](\A j, k \in LogIdx : j < k => log[j].file <= log[k].file)
    /\ [](\A k \in LogIdx :
            log[k].op = "query" =>
                IF k = Len(log) THEN pc = "query"
                ELSE log[k + 1].op = "answer" /\ log[k + 1].file = log[k].file)

\* a later file is written after the query dialog of an earlier file was
\* answered, with the cursor moved on
C18_Witness ==
    /\ Len(log) > 0
    /\ log[Len(log)].op = "fsetflags"
    /\ current_file = log[Len(log)].file
    /\ \E k \in LogIdx :
            /\ log[k].op = "answer"
            /\ log[k].file < current_file
            /\ ~f_marked[log[k].file]

\* a step inside the attribute dialog
DialogStep == pc = "dialog" /\ pc' = "dialog"

\* C19 as stated: switching a checkbox changes no selected mark.
C19_Original ==
    [][(DialogStep /\ check' # check) => selected' = selected]_vars

\* C19, amended: switching the checkbox of an attribute toggles the selected
\* mark of that attribute and no other mark or checkbox; a step of the dialog
\* that switches no checkbox (T, t or Insert) toggles one mark and leaves the
\* working flags alone; outside the dialog no mark changes.
C19_CheckboxTogglesSelect ==
    [][/\ DialogStep =>
            /\ \A i \in Attrs :
                    check'[i] # check[i] =>
                        /\ selected'[i] = ~selected[i]
                        /\ flags' = BitXor(flags, check_attr[i].flags)
                        /\ \A j \in Attrs \ {i} :
                                selected'[j] = selected[j] /\ check'[j] = check[j]
            /\ check' = check =>
                    /\ flags' = flags
                    /\ Cardinality({i \in Attrs : selected'[i] # selected[i]}) = 1
       /\ selected' # selected => DialogStep
      ]_vars

\* in the dialog an attribute whose checkbox was switched away from the bit of
\* the file is selected
C19_Witness ==
    /\ pc = "dialog"
    /\ \E i \in Attrs :
            /\ selected[i]
            /\ BitAnd(flags, check_attr[i].flags) # BitAnd(disk[target], check_attr[i].flags)

\* C20: the counter marked is the number of marked files, no marked file lies
\* before current_file once chattr_cmd has started, and wherever next_file ()
\* is called (the top of the loop of chattr_cmd with marked files, the do loop
\* of chattr_apply_mask) a file at or after current_file is marked, so the
\* scan ends inside the list.
C20_NextFileFindsMarked ==
    /\ marked = Cardinality({f \in Files : f_marked[f]})
    /\ pc # "start" => \A f \in Files : f < current_file => ~f_marked[f]
    /\ ((pc = "loop" /\ is_local /\ marked # 0) \/ pc = "apply") =>
            /\ \E f \in Files : f >= current_file /\ f_marked[f]
            /\ next_file \in Files
            /\ f_marked[next_file]

\* next_file () is about to be called in the do loop with one marked file
\* left, which is not the file at current_file
C20_Witness ==
    /\ pc = "apply"
    /\ marked = 1
    /\ next_file > current_file + 1

\* the bits of the modifiable attributes that have the selected mark
SelectedBits ==
    UNION {check_attr[i].flags : i \in {j \in Attrs : chattr_is_modifiable(j) /\ selected[j]}}

\* C21: only a step inside the attribute dialog changes a selected mark: the
\* entry of chattr_cmd, chattr_init () opening the dialog of the first or of
\* the next file, the buttons and the batch leave every mark as it is; and the
\* masks of "Marked all", "Set marked" and "Clear marked" cover exactly the
\* attributes that have the mark when the button is pressed, whichever dialog
\* or call set it.
C21_SelectedNeverReset ==
    /\ [][~DialogStep => selected' = selected]_vars
    /\ [](result = "B_SETMRK" => (or_mask = SelectedBits /\ and_mask = AllOnes))
    /\ [](result = "B_CLRMRK" => (or_mask = {} /\ and_mask = BitNot(SelectedBits)))
    /\ [](result = "B_MARKED" =>
            /\ or_mask \subseteq SelectedBits
            /\ BitNot(and_mask) \subseteq SelectedBits
            /\ BitOr(or_mask, BitNot(and_mask)) = SelectedBits)

\* "Set marked" was pressed in the dialog of a later file, after "Set" ended
\* the dialog of an earlier file of the run, and the mask has a selected bit
C21_Witness ==
    /\ result = "B_SETMRK"
    /\ or_mask # {}
    /\ \E k \in LogIdx :
            /\ log[k].op = "dlg_run"
            /\ log[k].val = "B_ENTER"
            /\ log[k].file < BatchFirst

\* C22: while the attribute dialog is open the checkbox of every modifiable
\* attribute is on exactly when the bit of the attribute is set in flags, and
\* the word "Set all" hands to the write of the first file is flags.
C22_CheckboxShowsFlags ==
    /\ pc = "dialog" =>
            \A i \in Attrs :
                chattr_is_modifiable(i) =>
                    (check[i] <=> check_attr[i].flags \subseteq flags)
    /\ (result = "B_SETALL" /\ site = "first") =>
            /\ m = flags
            /\ pc = "fsetflags" =>
                    /\ log[Len(log)].op \in {"dlg_run", "answer"}
                    /\ target = BatchFirst

\* "Set all" is about to write the first file with a word the user changed in
\* the dialog
C22_Witness ==
    /\ result = "B_SETALL"
    /\ site = "first"
    /\ pc = "fsetflags"
    /\ flags_changed
    /\ m # disk[target]

====
